---- MODULE Spec2Model ----
(***************************************************************************)
(* Model of scripts/gen-protocol-diagrams.py: generate_diagram (the row    *)
(* packer and the diagram assembly), _render_row and _render_wide_field.   *)
(*                                                                         *)
(* A text (a field's name or description) is modelled by its length: the   *)
(* code never looks at the characters, only at len() and at the index of   *)
(* each character.  Character i of the name of field f is the cell         *)
(* [c |-> "name", f |-> f, i |-> i], so that every cell of a rendered line *)
(* tells which write produced it.  A missing or empty description is       *)
(* length 0 (field.get('description') is falsy for both).                  *)
(*                                                                         *)
(* A line under construction is a Python list of 65 one-character strings; *)
(* list item assignment follows Python: an index in -65..-1 counts from    *)
(* the end, an index outside -65..64 raises IndexError.                    *)
(***************************************************************************)
EXTENDS Integers, Sequences, FiniteSets, TLC

RowBits == 32
BodyWidth == 63
LastColumn == 64
LineLen == 65

\* Bounds of the explored inputs.
MaxPackFields == 4
MaxRenderFields == 2

PackBits == {1, 8, 16, 24, 32, 40}
RenderBits == {8, 24, 40}
RenderNames == {3, 17, 140, 200}
RenderDescs == {0, 17}

VARIABLES protocol, pc, idx, bit_pos, row_fields, first_row, lines, calls

vars == <<protocol, pc, idx, bit_pos, row_fields, first_row, lines, calls>>

-----------------------------------------------------------------------------
\* Characters and lines.

Glyph(g) == [c |-> g, f |-> 0, i |-> 0]
Ch(kind, f, i) == [c |-> kind, f |-> f, i |-> i]

TextLine(kind) == [kind |-> kind, cells |-> <<>>]
DrawnLine(kind, cells) == [kind |-> kind, cells |-> cells]

\* ['│'] + [' '] * 63 + ['│']
BlankBody == [k \in 1..LineLen |->
                IF k = 1 \/ k = LineLen THEN Glyph("V") ELSE Glyph("SP")]

NewList == [cells |-> BlankBody, raised |-> FALSE, writes |-> {}]

\* Python list indexing on a list of 65 items.
InRange(pos) == pos >= -LineLen /\ pos < LineLen
ListIndex(pos) == IF pos < 0 THEN pos + LineLen ELSE pos

\* lst[pos] = ch on a list of 65 items.  writes records every assignment
\* that was attempted, with the index as computed.
SetItem(lst, pos, ch) ==
    IF lst.raised THEN lst
    ELSE LET w == lst.writes \cup {[c |-> ch.c, f |-> ch.f, i |-> ch.i, pos |-> pos]}
         IN IF ~InRange(pos)
            THEN [lst EXCEPT !.raised = TRUE, !.writes = w]
            ELSE [lst EXCEPT !.cells[ListIndex(pos) + 1] = ch, !.writes = w]

Least(S) == CHOOSE x \in S : \A y \in S : x <= y
Greatest(S) == CHOOSE x \in S : \A y \in S : x >= y

\* for i, ch in enumerate(text): pos = base + i; if <guard>: lst[pos] = ch
\* hits is the set of i whose guard holds.  The assignments run in the order
\* of i, up to and including the first one that raises; of two assignments
\* to one item the later stays.
WriteText(lst, kind, f, base, hits) ==
    IF lst.raised THEN lst
    ELSE LET bad   == {i \in hits : ~InRange(base + i)}
             done  == IF bad = {} THEN hits ELSE {i \in hits : i < Least(bad)}
             tried == IF bad = {} THEN hits ELSE done \cup {Least(bad)}
             \* the i of done assigned to item k: base + i is k or k - 65
             At(k) == {i \in {k - base, k - LineLen - base} :
                          i \in done /\ ListIndex(base + i) = k}
         IN [cells  |-> [k \in 1..LineLen |->
                           IF At(k - 1) # {} THEN Ch(kind, f, Greatest(At(k - 1)))
                           ELSE lst.cells[k]],
             raised |-> bad # {},
             writes |-> lst.writes \cup
                        {[c |-> kind, f |-> f, i |-> i, pos |-> base + i] : i \in tried}]

-----------------------------------------------------------------------------
\* Column arithmetic of _render_row.

CharStart(start) == start * 2 + 1
\* Variant of CharEnd that counts the separator column into the span.
CharEndWithSeparator(end) == end * 2 + 3
CharEnd(end) == end * 2 + 2
LeftPad(width, len) == (width - len) \div 2

-----------------------------------------------------------------------------
\* The renderers.  A field is named by its index f in protocol.fields.

Field(f) == protocol.fields[f]

\* Opening corners for the first row, row-separator corners afterwards.
LeftCorner(is_first) == IF is_first THEN "TL" ELSE "LJ"
RightCorner(is_first) == IF is_first THEN "TR" ELSE "RJ"

\* "┌" + "─" * 63 + "┐"  or  "├" + "─" * 63 + "┤"
PlainBorder(is_first) ==
    [k \in 1..LineLen |->
        IF k = 1 THEN Glyph(LeftCorner(is_first))
        ELSE IF k = LineLen THEN Glyph(RightCorner(is_first))
        ELSE Glyph("H")]

\* for i, ch in enumerate(text): pos = left_pad + i + 1; if pos < 64: ...
WideGuard(pos) == pos < LastColumn

\* left_pad = (63 - len(text)) // 2, then the loop over the characters
WideTextLine(kind, f, len) ==
    LET left_pad == LeftPad(BodyWidth, len)
    IN WriteText(NewList, kind, f, left_pad + 1,
                 {i \in 0..(len - 1) : WideGuard(left_pad + i + 1)})

\* What a renderer hands back: the lines it returns, whether it raised
\* IndexError instead of returning, and the item assignments it attempted on
\* each line.  The description line is built only when there is a
\* description and the name line was completed.
Rendered(top, name_line, has_desc, desc_line) ==
    [raised |-> name_line.raised \/ (has_desc /\ desc_line.raised),
     lines  |-> <<DrawnLine("border", top), DrawnLine("name", name_line.cells)>>
                \o (IF has_desc THEN <<DrawnLine("desc", desc_line.cells)>> ELSE <<>>),
     name_writes |-> name_line.writes,
     desc_writes |-> IF has_desc /\ ~name_line.raised THEN desc_line.writes ELSE {}]

_render_wide_field(f, is_first) ==
    Rendered(PlainBorder(is_first),
             WideTextLine("name", f, Field(f).name),
             Field(f).description # 0,
             WideTextLine("desc", f, Field(f).description))

\* for _, _, end in row_fields[:-1]: if i == end * 2 + 2
IsBoundary(group, i) ==
    \E k \in 1..(Len(group) - 1) : i = group[k].end * 2 + 2

\* border = [corner]; for i in range(63): border.append(...); border.append(corner)
RowBorder(group, is_first) ==
    [k \in 1..LineLen |->
        IF k = 1 THEN Glyph(LeftCorner(is_first))
        ELSE IF k = LineLen THEN Glyph(RightCorner(is_first))
        ELSE IF IsBoundary(group, k - 2) THEN Glyph("TJ") ELSE Glyph("H")]

\* if pos < char_end and pos < 64
RowGuard(pos, char_end) == pos < char_end /\ pos < LastColumn

\* for i, ch in enumerate(text): pos = char_start + left_pad + i; ...
WriteRow(lst, kind, f, len, base, char_end) ==
    WriteText(lst, kind, f, base, {i \in 0..(len - 1) : RowGuard(base + i, char_end)})

\* Column of the separator the name line draws after a field: char_end.
NameSepPos(end) == CharEnd(end)
\* if end < 31 and char_end < 64
NameSepGuard(end) == end < RowBits - 1 /\ CharEnd(end) < LastColumn

\* Column of the separator the description line draws after a field.
DescSepPos(end) == end * 2 + 3
\* if end < 31: ... if sep_pos < 64
DescSepGuard(end) == end < RowBits - 1 /\ DescSepPos(end) < LastColumn

\* The body of "for field, start, end in row_fields" of the name line,
\* entries k..Len(group).
RECURSIVE NameLoop(_, _, _)
NameLoop(lst, group, k) ==
    IF k > Len(group) \/ lst.raised THEN lst
    ELSE LET e          == group[k]
             char_start == CharStart(e.start)
             char_end   == CharEnd(e.end)
             width      == char_end - char_start
             len        == Field(e.f).name
             left_pad   == LeftPad(width, len)
             labelled   == WriteRow(lst, "name", e.f, len, char_start + left_pad, char_end)
             separated  == IF NameSepGuard(e.end)
                           THEN SetItem(labelled, NameSepPos(e.end), Ch("V", e.f, 0))
                           ELSE labelled
         IN NameLoop(separated, group, k + 1)

RECURSIVE DescLoop(_, _, _)
DescLoop(lst, group, k) ==
    IF k > Len(group) \/ lst.raised THEN lst
    ELSE LET e          == group[k]
             char_start == CharStart(e.start)
             char_end   == CharEnd(e.end)
             width      == char_end - char_start
             len        == Field(e.f).description
             left_pad   == LeftPad(width, len)
             described  == IF len # 0
                           THEN WriteRow(lst, "desc", e.f, len, char_start + left_pad, char_end)
                           ELSE lst
             separated  == IF DescSepGuard(e.end)
                           THEN SetItem(described, DescSepPos(e.end), Ch("V", e.f, 0))
                           ELSE described
         IN DescLoop(separated, group, k + 1)

\* has_desc = any(f.get('description') for f, _, _ in row_fields)
HasDesc(group) == \E k \in 1..Len(group) : Field(group[k].f).description # 0

_render_row(group, is_first) ==
    Rendered(RowBorder(group, is_first),
             NameLoop(NewList, group, 1),
             HasDesc(group),
             DescLoop(NewList, group, 1))

-----------------------------------------------------------------------------
\* generate_diagram.

Fields == protocol.fields
NumFields == Len(Fields)

\* ((bit_pos + 31) // 32) * 32
AlignUp(pos) == ((pos + (RowBits - 1)) \div RowBits) * RowBits

\* if field_bits > 32
IsWide(bits) == bits > RowBits
\* Variant of Overflows that lets a field end one bit past the row.
OverflowsOffByOne(start_bit, bits) == start_bit + bits > RowBits + 1
\* if start_bit + field_bits > 32
Overflows(start_bit, bits) == start_bit + bits > RowBits
\* Variant of RowComplete that closes a row only every second boundary.
RowCompleteEverySecond(pos) == pos % (2 * RowBits) = 0
\* if bit_pos % 32 == 0
RowComplete(pos) == pos % RowBits = 0
\* Variant of AfterRender that forgets to clear the flag.
AfterRenderKeepsFlag(was_first) == was_first
\* first_row = False, after a render inside the loop
AfterRender(was_first) == FALSE

Entry(f, start_bit, end_bit) == [f |-> f, start |-> start_bit, end |-> end_bit]

\* A record of one call of a renderer: what it was given, and the index in
\* lines of the first line it contributed (history, not program state).
RowCall(group, is_first, at) ==
    [kind |-> "row", f |-> 0, group |-> group, is_first |-> is_first, at |-> at]
WideCall(f, is_first, at) ==
    [kind |-> "wide", f |-> f, group |-> <<>>, is_first |-> is_first, at |-> at]

\* The local variables of generate_diagram, threaded through the statements
\* of one loop iteration.  ok = FALSE once a renderer has raised: the
\* exception leaves generate_diagram, and no later statement runs.
Frame == [ok |-> TRUE, bit_pos |-> bit_pos, row_fields |-> row_fields,
          first_row |-> first_row, lines |-> lines, calls |-> calls]

\* lines.extend(r) for the result r of a renderer, or the exception.
Extend(fr, r, call) ==
    IF r.raised
    THEN [fr EXCEPT !.ok = FALSE, !.calls = Append(@, call)]
    ELSE [fr EXCEPT !.lines = @ \o r.lines, !.calls = Append(@, call)]

\* lines.extend(_render_row(row_fields, is_first=first_row))
ExtendRow(fr) ==
    Extend(fr, _render_row(fr.row_fields, fr.first_row),
           RowCall(fr.row_fields, fr.first_row, Len(fr.lines) + 1))

\* lines.extend(_render_wide_field(field, is_first=first_row))
ExtendWide(fr, f) ==
    Extend(fr, _render_wide_field(f, fr.first_row),
           WideCall(f, fr.first_row, Len(fr.lines) + 1))

\* first_row = False; row_fields = []  (skipped when the render raised)
Reset(fr) ==
    IF fr.ok THEN [fr EXCEPT !.first_row = AfterRender(@), !.row_fields = <<>>] ELSE fr

\* if row_fields: lines.extend(_render_row(...)); first_row = False; row_fields = []
FlushPending(fr) ==
    IF fr.ok /\ fr.row_fields # <<>> THEN Reset(ExtendRow(fr)) ELSE fr

\* if start_bit != 0: bit_pos = ((bit_pos + 31) // 32) * 32
AlignIfNeeded(fr, start_bit) ==
    IF fr.ok /\ start_bit # 0 THEN [fr EXCEPT !.bit_pos = AlignUp(@)] ELSE fr

\* lines.extend(_render_wide_field(...)); first_row = False; bit_pos += field_bits
EmitWide(fr, f) ==
    IF fr.ok THEN ExtendWide(fr, f) ELSE fr
AdvanceWide(fr, f) ==
    IF fr.ok THEN [fr EXCEPT !.first_row = AfterRender(@), !.bit_pos = @ + Fields[f].bits]
    ELSE fr

\* The branch "if field_bits > 32" for field f.
WideBody(fr, f) ==
    AdvanceWide(EmitWide(AlignIfNeeded(FlushPending(fr), fr.bit_pos % RowBits), f), f)

\* if start_bit + field_bits > 32: <flush>; bit_pos = ((bit_pos + 31) // 32) * 32
CloseRow(fr) ==
    IF fr.ok THEN [fr EXCEPT !.bit_pos = AlignUp(@)] ELSE fr
MakeRoom(fr, over) ==
    IF over THEN CloseRow(FlushPending(fr)) ELSE fr

\* row_fields.append((field, start_bit, end_bit)); bit_pos += field_bits
Place(fr, f, start_bit) ==
    IF fr.ok
    THEN [fr EXCEPT !.row_fields = Append(@, Entry(f, start_bit, start_bit + Fields[f].bits - 1)),
                    !.bit_pos = @ + Fields[f].bits]
    ELSE fr

\* if bit_pos % 32 == 0: <render and reset>
FlushIfComplete(fr) ==
    IF fr.ok /\ RowComplete(fr.bit_pos) THEN Reset(ExtendRow(fr)) ELSE fr

\* start_bit = bit_pos % 32, and start_bit = 0 after an overflow
StartBit(pos, bits) ==
    IF Overflows(pos % RowBits, bits) THEN 0 ELSE pos % RowBits

\* The rest of the loop body for a field f of at most 32 bits.
PackBody(fr, f) ==
    FlushIfComplete(
        Place(MakeRoom(fr, Overflows(fr.bit_pos % RowBits, Fields[f].bits)),
              f, StartBit(fr.bit_pos, Fields[f].bits)))

\* if row_fields: lines.extend(_render_row(...))  -- the flag and the list
\* are left as they are
FinalFlush(fr) ==
    IF fr.row_fields # <<>> THEN ExtendRow(fr) ELSE fr

\* lines.append(closing border); the total note; return '\n'.join(lines)
Close(fr) ==
    IF fr.ok
    THEN [fr EXCEPT !.lines = @ \o <<TextLine("closing")>>
                        \o (IF protocol.total_note
                            THEN <<TextLine("blank"), TextLine("note")>> ELSE <<>>)]
    ELSE fr

FinishBody(fr) == Close(FinalFlush(fr))

Commit(fr, next_pc, next_idx) ==
    /\ pc' = IF fr.ok THEN next_pc ELSE "raised"
    /\ idx' = IF fr.ok THEN next_idx ELSE idx
    /\ bit_pos' = fr.bit_pos
    /\ row_fields' = fr.row_fields
    /\ first_row' = fr.first_row
    /\ lines' = fr.lines
    /\ calls' = fr.calls
    /\ UNCHANGED protocol

\* One iteration of "for field in fields" on a field wider than 32 bits.
WideField ==
    /\ pc = "loop"
    /\ idx < NumFields
    /\ IsWide(Fields[idx + 1].bits)
    /\ Commit(WideBody(Frame, idx + 1), "loop", idx + 1)

\* One iteration of "for field in fields" on a field of at most 32 bits.
PackField ==
    /\ pc = "loop"
    /\ idx < NumFields
    /\ ~IsWide(Fields[idx + 1].bits)
    /\ Commit(PackBody(Frame, idx + 1), "loop", idx + 1)

\* The statements after the loop.
Finish ==
    /\ pc = "loop"
    /\ idx = NumFields
    /\ Commit(FinishBody(Frame), "done", idx)

\* Title and bit position header.
Header(p) ==
    (IF p.name
     THEN <<TextLine(IF p.source THEN "title_source" ELSE "title"), TextLine("blank")>>
     ELSE <<>>)
    \o <<TextLine("ruler_tens"), TextLine("ruler_units")>>

SeqsUpTo(S, n) == UNION {[1..k -> S] : k \in 0..n}

Protocol(has_name, has_source, has_note, fields) ==
    [name |-> has_name, source |-> has_source, total_note |-> has_note, fields |-> fields]

\* generate_diagram(p) up to the start of the loop.
Start(p) ==
    /\ protocol = p
    /\ pc = "loop"
    /\ idx = 0
    /\ bit_pos = 0
    /\ row_fields = <<>>
    /\ first_row = TRUE
    /\ lines = Header(p)
    /\ calls = <<>>

\* Inputs that exercise the packer: many widths, short names.
PackField1 == [name : {2}, bits : PackBits, description : {0}]
InitPack ==
    \E fs \in SeqsUpTo(PackField1, MaxPackFields) :
        Start(Protocol(FALSE, FALSE, FALSE, fs))

\* Inputs that exercise the renderers: few widths, names and descriptions
\* shorter and longer than the spans.
RenderField1 == [name : RenderNames, bits : RenderBits, description : RenderDescs]
InitRender ==
    \E fs \in SeqsUpTo(RenderField1, MaxRenderFields) :
        Start(Protocol(TRUE, TRUE, TRUE, fs))

\* The example input: Version (4 bits), Type (4 bits), Length (24 bits).
ExampleFields ==
    << [name |-> 7, bits |-> 4, description |-> 0],
       [name |-> 4, bits |-> 4, description |-> 0],
       [name |-> 6, bits |-> 24, description |-> 0] >>
InitExample ==
    \E has_source \in BOOLEAN :
        Start(Protocol(TRUE, has_source, FALSE, ExampleFields))

Init == InitPack \/ InitRender \/ InitExample

Next == WideField \/ PackField \/ Finish

Spec == Init /\ [][Next]_vars

-----------------------------------------------------------------------------
\* Vocabulary of the properties.

Bits(f) == Fields[f].bits
Narrow(f) == ~IsWide(Bits(f))

RECURSIVE SumBits(_)
SumBits(n) == IF n = 0 THEN 0 ELSE SumBits(n - 1) + Bits(n)

RECURSIVE GroupBits(_)
GroupBits(g) == IF g = <<>> THEN 0 ELSE Bits(g[1].f) + GroupBits(Tail(g))

RECURSIVE GroupFields(_)
GroupFields(g) == IF g = <<>> THEN <<>> ELSE <<g[1].f>> \o GroupFields(Tail(g))

CallIds == 1..Len(calls)
RowCallIds == {n \in CallIds : calls[n].kind = "row"}
\* The call returned and its lines are part of the output so far.
Returned(n) == calls[n].at <= Len(lines)
ReturnedIds == {n \in CallIds : Returned(n)}

\* The row groups built so far: those handed to _render_row and the one
\* being accumulated.
Groups == {calls[n].group : n \in RowCallIds} \cup {row_fields}

\* Every (entry, position in its group) built so far.
Placed == UNION {{[e |-> g[k], k |-> k] : k \in 1..Len(g)} : g \in Groups}
PlacedOf(f) == {p \in Placed : p.e.f = f}

\* What the renderer computed in call n (its attempted item assignments).
ResultOf(n) ==
    IF calls[n].kind = "row"
    THEN _render_row(calls[n].group, calls[n].is_first)
    ELSE _render_wide_field(calls[n].f, calls[n].is_first)

TextWrites(n) ==
    {w \in ResultOf(n).name_writes \cup ResultOf(n).desc_writes : w.c \in {"name", "desc"}}

\* The span of field f in call n: [start*2+1, end*2+2) in a row, 1..63 in a
\* wide block.
InSpan(n, f, col) ==
    IF calls[n].kind = "wide"
    THEN col >= 1 /\ col <= BodyWidth
    ELSE \E k \in 1..Len(calls[n].group) :
            /\ calls[n].group[k].f = f
            /\ col >= calls[n].group[k].start * 2 + 1
            /\ col < calls[n].group[k].end * 2 + 2

-----------------------------------------------------------------------------
\* C1: a field of more than 32 bits is never an entry of a row group, and
\* once it has been processed the bit cursor is a multiple of 32, so that the
\* field after it is packed at start_bit 0.
C1_WideFieldAloneAndAligned ==
    /\ \A p \in Placed : Narrow(p.e.f)
    /\ (pc # "raised" /\ idx >= 1 /\ IsWide(Bits(idx))) => bit_pos % 32 = 0
    /\ \A p \in Placed : (p.e.f > 1 /\ IsWide(Bits(p.e.f - 1))) => p.e.start = 0

-----------------------------------------------------------------------------
\* C2.

AllNarrow == \A f \in 1..NumFields : Narrow(f)
TotalBits == SumBits(NumFields)
Ceil32(n) == (n + 31) \div 32
\* No field lies across a multiple of 32 of the running total of the widths.
NoStraddle == \A f \in 1..NumFields : (SumBits(f - 1) % 32) + Bits(f) <= 32

\* C2 as stated: when every width is in 1..32 and the widths sum to a
\* multiple of 32, generate_diagram renders exactly ceil(total_bits/32) row
\* groups, each of them but possibly the last summing to exactly 32 bits.
C2_Original ==
    (pc = "done" /\ AllNarrow /\ TotalBits % 32 = 0) =>
        /\ Len(calls) = Ceil32(TotalBits)
        /\ \A n \in CallIds : n < Len(calls) => GroupBits(calls[n].group) = 32

\* C2 amended: when, in addition, no field lies across a multiple of 32 of
\* the running total of the widths, every group handed to _render_row sums to
\* exactly 32 bits and their number is bit_pos / 32 at every point, hence
\* total_bits / 32 = ceil(total_bits/32) once all fields are processed.
C2_ExactRowsWhenNoFieldStraddles ==
    (AllNarrow /\ TotalBits % 32 = 0 /\ NoStraddle) =>
        /\ \A n \in CallIds : calls[n].kind = "row" /\ GroupBits(calls[n].group) = 32
        /\ Len(calls) = bit_pos \div 32
        /\ pc = "done" => Len(calls) = Ceil32(TotalBits)

C2_Witness ==
    /\ pc = "done"
    /\ AllNarrow /\ TotalBits % 32 = 0 /\ NoStraddle
    /\ Len(calls) >= 2
    /\ \E n \in CallIds : Len(calls[n].group) >= 2

-----------------------------------------------------------------------------
\* C3.

GroupOK(g) ==
    /\ \A k \in 1..Len(g) :
          /\ 0 <= g[k].start /\ g[k].start <= g[k].end /\ g[k].end <= 31
          /\ g[k].end - g[k].start + 1 = Bits(g[k].f)
          /\ k > 1 => g[k].start = g[k - 1].end + 1
    /\ GroupBits(g) <= 32

\* Field f follows the field of at most 32 bits placed as q: it continues
\* q's row when it fits in the rest of that row, and otherwise it is the
\* first entry of another row, at start_bit 0.
FollowsOK(p, q) ==
    IF q.e.end + 1 + Bits(p.e.f) <= 32
    THEN /\ p.k = q.k + 1
         /\ \E g \in Groups : Len(g) >= p.k /\ g[q.k] = q.e /\ g[p.k] = p.e
    ELSE p.k = 1 /\ p.e.start = 0

\* C3: at every point of the packing loop, the pending row group and every
\* row group passed to _render_row have contiguous entries within bits 0..31,
\* each entry as wide as its field, at most 32 bits in all; a field of at most
\* 32 bits is one entry (never split), placed at start_bit 0 of a fresh row
\* when it does not fit in the rest of the current row.
C3_RowGroupsWellFormed ==
    /\ \A g \in Groups : GroupOK(g)
    /\ \A f \in 1..NumFields : Cardinality({p.e : p \in PlacedOf(f)}) <= 1
    /\ \A p \in Placed :
          (p.e.f > 1 /\ Narrow(p.e.f - 1)) =>
              \A q \in PlacedOf(p.e.f - 1) : FollowsOK(p, q)

\* A row was closed early: its last field ends before bit 31 and the next
\* field opens the following row.
C3_Witness ==
    /\ pc = "done"
    /\ \E p \in Placed :
          /\ p.e.f > 1 /\ Narrow(p.e.f - 1) /\ p.k = 1 /\ p.e.start = 0
          /\ \E q \in PlacedOf(p.e.f - 1) : q.e.end < 31 /\ q.k >= 2

-----------------------------------------------------------------------------
\* C4.

\* The fields of the rows and blocks of the output so far, top to bottom and
\* left to right.
RECURSIVE RenderedFields(_)
RenderedFields(n) ==
    IF n = 0 THEN <<>>
    ELSE RenderedFields(n - 1) \o
         (IF ~Returned(n) THEN <<>>
          ELSE IF calls[n].kind = "wide" THEN <<calls[n].f>>
          ELSE GroupFields(calls[n].group))

InputOrder == [f \in 1..NumFields |-> f]

\* C4: for every field list, when generate_diagram is over each input field
\* has been rendered exactly once, in input order, in a row group or a wide
\* block, and no pending row group is left unrendered.
C4_EveryFieldRenderedOnceInOrder ==
    pc # "loop" => RenderedFields(Len(calls)) = InputOrder

\* The same for the runs that return: it holds, the runs that raise are the
\* ones that break C4.
C4_WhenReturned ==
    pc = "done" => RenderedFields(Len(calls)) = InputOrder

-----------------------------------------------------------------------------
\* C5: every character of a name or a description that is written is
\* written inside its field's own span ([start*2+1, end*2+2) in a row,
\* columns 1..63 in a wide block), never over a border, a separator or a
\* neighbouring span.
C5_TextStaysInsideItsSpan ==
    \A n \in CallIds : \A w \in TextWrites(n) : InSpan(n, w.f, w.pos)

-----------------------------------------------------------------------------
\* C6.

ExampleRun == protocol.fields = ExampleFields /\ pc = "done"

ExampleGroup ==
    << [f |-> 1, start |-> 0, end |-> 3],
       [f |-> 2, start |-> 4, end |-> 7],
       [f |-> 3, start |-> 8, end |-> 31] >>

ExamplePacked ==
    Len(calls) = 1 /\ calls[1].kind = "row" /\ calls[1].group = ExampleGroup

\* char_end - char_start of the three entries, as _render_row computes them.
ExampleWidths ==
    [k \in 1..3 |-> CharEnd(calls[1].group[k].end) - CharStart(calls[1].group[k].start)]

\* The name of field f, len characters, stands in the name line of the first
\* row from column col on.
LabelAt(f, len, col) ==
    \A i \in 0..(len - 1) : lines[calls[1].at + 1].cells[col + i + 1] = Ch("name", f, i)

\* C6 as stated: Version/4, Type/4, Length/24 are packed into one row group
\* covering bits 0-3, 4-7, 8-31, the labels centred in spans of 8, 8 and 47
\* columns.
C6_Original ==
    ExampleRun => ExamplePacked /\ ExampleWidths = <<8, 8, 47>>

\* C6 amended: the spans [start*2+1, end*2+2) are 7, 7 and 47 columns wide
\* (columns 1-7, 9-15, 17-63), and the labels are centred in them: Version
\* from column 1, Type from column 10, Length from column 37.
C6_ExampleSpans7_7_47 ==
    ExampleRun =>
        /\ ExamplePacked
        /\ ExampleWidths = <<7, 7, 47>>
        /\ LabelAt(1, 7, 1) /\ LabelAt(2, 4, 10) /\ LabelAt(3, 6, 37)
        /\ Cardinality({k \in 1..65 : lines[calls[1].at + 1].cells[k].c = "name"}) = 17

C6_Witness == ExampleRun /\ Len(calls) = 1 /\ Len(lines) >= 5

-----------------------------------------------------------------------------
\* C7: generate_diagram never raises, every item assignment it attempts is
\* at a column of the 65-character line (0..64), and every rendered line is
\* 65 characters long.
C7_NeverRaisesWritesInsideLine ==
    /\ pc # "raised"
    /\ \A n \in CallIds :
          \A w \in ResultOf(n).name_writes \cup ResultOf(n).desc_writes :
              w.pos >= 0 /\ w.pos <= 64
    /\ \A k \in 1..Len(lines) : lines[k].cells # <<>> => Len(lines[k].cells) = 65

-----------------------------------------------------------------------------
\* C8 and C10.

ReturnedRowIds == RowCallIds \cap ReturnedIds

\* Where the lines of a row draw their separators.
JunctionCols(n) == {col \in 1..63 : lines[calls[n].at].cells[col + 1].c = "TJ"}
NameBarCols(n) == {w.pos : w \in {v \in ResultOf(n).name_writes : v.c = "V"}}
DescBarCols(n) == {w.pos : w \in {v \in ResultOf(n).desc_writes : v.c = "V"}}

\* The columns between the last digit of bit e.end and the first digit of
\* the next bit.
BoundaryAfter(e) == {e.end * 2 + 2, e.end * 2 + 3}

\* cols holds a separator after each entry of g but the last, and nowhere
\* else.
SeparatorsOf(cols, g) ==
    /\ \A k \in 1..(Len(g) - 1) : cols \cap BoundaryAfter(g[k]) # {}
    /\ cols \subseteq UNION {BoundaryAfter(g[k]) : k \in 1..(Len(g) - 1)}

\* C8: each line _render_row produces for a row (top border, name line,
\* description line when present) has a separator right after every field of
\* the row but the last, and none after the last, also when the last field
\* ends before bit 31.
C8_SeparatorAfterAllButLast ==
    \A n \in ReturnedRowIds :
        /\ SeparatorsOf(JunctionCols(n), calls[n].group)
        /\ SeparatorsOf(NameBarCols(n), calls[n].group)
        /\ HasDesc(calls[n].group) => SeparatorsOf(DescBarCols(n), calls[n].group)

\* C10: in every row, the separator after each field but the last is in one
\* column in all lines of the row (junction of the top border, bar of the
\* name line, bar of the description line when present), and that column is
\* in no field's text span.
C10_SeparatorsShareOneColumn ==
    \A n \in ReturnedRowIds :
        \A k \in 1..(Len(calls[n].group) - 1) :
            \E col \in BoundaryAfter(calls[n].group[k]) :
                /\ col \in JunctionCols(n)
                /\ col \in NameBarCols(n)
                /\ HasDesc(calls[n].group) => col \in DescBarCols(n)
                /\ \A j \in 1..Len(calls[n].group) : ~InSpan(n, calls[n].group[j].f, col)

-----------------------------------------------------------------------------
\* C9.

TopOf(n) == lines[calls[n].at]
OpeningTop(l) == l.kind = "border" /\ l.cells[1].c = "TL" /\ l.cells[65].c = "TR"
SeparatorTop(l) == l.kind = "border" /\ l.cells[1].c = "LJ" /\ l.cells[65].c = "RJ"

BodyKinds == {"border", "name", "desc"}
LinesOfKind(K) == {k \in 1..Len(lines) : lines[k].kind \in K}

\* The first row or block of the output has the opening corners and every
\* later one the row-separator corners; a returned diagram has one closing
\* border, right after the last line of the body.
BordersInOrder ==
    /\ \A n \in ReturnedIds :
          IF n = 1 THEN OpeningTop(TopOf(n)) ELSE SeparatorTop(TopOf(n))
    /\ LinesOfKind({"border"}) = {calls[n].at : n \in ReturnedIds}
    /\ pc # "done" => LinesOfKind({"closing"}) = {}
    /\ pc = "done" =>
          /\ Cardinality(LinesOfKind({"closing"})) = 1
          /\ \A c \in LinesOfKind({"closing"}) :
                /\ \A k \in LinesOfKind(BodyKinds) : k < c
                /\ c = Len(Header(protocol)) + Cardinality(LinesOfKind(BodyKinds)) + 1

\* C9 as stated: the borders are as above, and once a row or block has been
\* rendered first_row is never true again.
C9_Original ==
    /\ BordersInOrder
    /\ ReturnedIds # {} => ~first_row

\* C9 amended: the borders are as above; only the first call of a renderer
\* is given is_first = True, and first_row is false whenever the loop goes on
\* after a render (the flush after the loop leaves the flag as it is, so the
\* flag is still true at the end when that flush rendered the first row).
C9_OnlyFirstRenderOpens ==
    /\ BordersInOrder
    /\ \A n \in CallIds : calls[n].is_first = (n = 1)
    /\ (pc = "loop" /\ ReturnedIds # {}) => ~first_row

C9_Witness ==
    /\ pc = "done"
    /\ Len(calls) >= 3
    /\ \E n \in CallIds : calls[n].kind = "wide"
    /\ calls[Len(calls)].kind = "row"
    /\ first_row = FALSE

====
